---------------------------- MODULE Spec2Model ----------------------------
(***************************************************************************)
(* A model of the tree-walking interpreter of src/main.rs: the value and   *)
(* expression types, the four type-checked operator rules and the          *)
(* recursive evaluator `eval`, run as an explicit call stack so that the   *)
(* order of evaluation, the early returns of `?` and the unwinding of a    *)
(* panic are steps of the model.                                           *)
(*                                                                         *)
(* Machine arithmetic is kept at reduced width: u64 is an unsigned word    *)
(* of IntBits bits, f64 a binary floating-point format with MantBits bits  *)
(* of precision and exponents ExpMin..ExpMax, rounded to nearest, ties to  *)
(* even, with signed zeros, infinities and NaN.  IntBits > MantBits, as    *)
(* 64 > 53, so that `as f64` is lossy for large words.                     *)
(***************************************************************************)
EXTENDS Integers, Sequences, FiniteSets, TLC

\* Width of the unsigned integer word standing for u64 (64 in the source).
IntBits == 6

\* Precision (significand bits, hidden bit included) of the format standing
\* for f64 (53 in the source).
MantBits == 5

\* Largest exponent of the format standing for f64 (1023 in the source).
ExpMax == 7

\* Bounds of the expression trees handed to eval: operator nodes per tree and
\* nesting depth of operator nodes.
MaxOps == 3

MaxDepth == 2

Modulus == 2 ^ IntBits

MaxU == Modulus - 1

ExpMin == 1 - ExpMax

---------------------------------------------------------------------------
(* f64: finite values are sg * n / d in lowest terms (d a power of two).   *)

F_NaN == [c |-> "nan", sg |-> 1, n |-> 0, d |-> 1]

F_Inf(sg) == [c |-> "inf", sg |-> sg, n |-> 0, d |-> 1]

F_Zero(sg) == [c |-> "fin", sg |-> sg, n |-> 0, d |-> 1]

RECURSIVE GCD(_, _)
GCD(a, b) == IF b = 0 THEN a ELSE GCD(b, a % b)

F_Fin(sg, n, d) ==
    LET g == GCD(n, d) IN [c |-> "fin", sg |-> sg, n |-> n \div g, d |-> d \div g]

RECURSIVE Log2Up(_, _, _)
Log2Up(n, d, e) == IF n >= 2 * d THEN Log2Up(n, 2 * d, e + 1) ELSE e

RECURSIVE Log2Down(_, _, _)
Log2Down(n, d, e) == IF n < d THEN Log2Down(2 * n, d, e - 1) ELSE e

\* floor(log2(n / d)) for n, d > 0
FloorLog2(n, d) == IF n >= d THEN Log2Up(n, d, 0) ELSE Log2Down(n, d, 0)

\* The exponent of the binade n / d is rounded in: floor(log2(n / d)), and
\* ExpMin for the subnormal range.
F_Exp(n, d) ==
    LET e0 == FloorLog2(n, d) IN IF e0 < ExpMin THEN ExpMin ELSE e0

\* The integer nearest to A / B, ties to even.
RoundEven(A, B) ==
    LET fl  == A \div B
        rem == A % B
    IN  IF 2 * rem > B \/ (2 * rem = B /\ fl % 2 = 1) THEN fl + 1 ELSE fl

\* The value m * 2^sh of exponent e; a significand rounded up out of the
\* largest binade overflows to infinity.
F_Pack(sg, m, e, sh) ==
    IF m = 2 ^ MantBits /\ e = ExpMax THEN F_Inf(sg)
    ELSE IF sh >= 0 THEN F_Fin(sg, m * 2 ^ sh, 1)
    ELSE F_Fin(sg, m, 2 ^ (0 - sh))

\* n / d rounded to a multiple of 2^sh.
F_Scaled(sg, n, d, e, sh) ==
    IF sh >= 0 THEN F_Pack(sg, RoundEven(n, d * 2 ^ sh), e, sh)
    ELSE F_Pack(sg, RoundEven(n * 2 ^ (0 - sh), d), e, sh)

\* The exact non-negative rational n / d with sign sg, rounded to the format:
\* to nearest, ties to even; gradual underflow; overflow to infinity.
F_RoundIn(sg, n, d, e) ==
    IF e > ExpMax THEN F_Inf(sg) ELSE F_Scaled(sg, n, d, e, e - MantBits + 1)

F_Round(sg, n, d) ==
    IF n = 0 THEN F_Zero(sg) ELSE F_RoundIn(sg, n, d, F_Exp(n, d))

\* A float literal n / d of the source text (sg = -1 for a negative one).
F_Lit(sg, n, d) == F_Round(sg, n, d)

\* `val as f64` for val: u64
F_FromU64(i) == F_Round(1, i, 1)

F_Neg(x) == IF x.c = "nan" THEN x ELSE [x EXCEPT !.sg = 0 - x.sg]

\* f64 `+`
F_Add(x, y) ==
    IF x.c = "nan" \/ y.c = "nan" THEN F_NaN
    ELSE IF x.c = "inf" THEN (IF y.c = "inf" /\ y.sg # x.sg THEN F_NaN ELSE x)
    ELSE IF y.c = "inf" THEN y
    ELSE
    LET num == x.sg * x.n * y.d + y.sg * y.n * x.d
        den == x.d * y.d
    IN  IF num = 0 THEN F_Zero(IF x.sg = -1 /\ y.sg = -1 THEN -1 ELSE 1)
        ELSE IF num < 0 THEN F_Round(-1, 0 - num, den)
        ELSE F_Round(1, num, den)

\* f64 `-`
F_Sub(x, y) == F_Add(x, F_Neg(y))

\* f64 `*`
F_Mul(x, y) ==
    IF x.c = "nan" \/ y.c = "nan" THEN F_NaN
    ELSE IF x.c = "inf" \/ y.c = "inf"
         THEN (IF (x.c = "fin" /\ x.n = 0) \/ (y.c = "fin" /\ y.n = 0)
               THEN F_NaN ELSE F_Inf(x.sg * y.sg))
    ELSE F_Round(x.sg * y.sg, x.n * y.n, x.d * y.d)

\* f64 `/`: division by zero gives an infinity or NaN, never a panic
F_Div(x, y) ==
    IF x.c = "nan" \/ y.c = "nan" THEN F_NaN
    ELSE IF x.c = "inf" THEN (IF y.c = "inf" THEN F_NaN ELSE F_Inf(x.sg * y.sg))
    ELSE IF y.c = "inf" THEN F_Zero(x.sg * y.sg)
    ELSE IF y.n = 0 THEN (IF x.n = 0 THEN F_NaN ELSE F_Inf(x.sg * y.sg))
    ELSE F_Round(x.sg * y.sg, x.n * y.d, x.d * y.n)

---------------------------------------------------------------------------
(* enum Val, enum Exp, Option<Val>                                         *)

Val_Boo(b) == [k |-> "Boo", b |-> b]

Val_Int(n) == [k |-> "Int", n |-> n]

Val_Nil == [k |-> "Nil"]

Val_Rat(f) == [k |-> "Rat", f |-> f]

Val_Txt(s) == [k |-> "Txt", s |-> s]

BinOps == {"Add", "Sub", "Mul", "Div"}

Exp_Var(v) == [op |-> "Var", val |-> v]

Exp_Bin(op, e1, e2) == [op |-> op, exp1 |-> e1, exp2 |-> e2]

Some(v) == [tag |-> "Some", val |-> v]

None == [tag |-> "None"]

\* A panic leaves the function without a return value and unwinds the stack.
Panic(why) == [tag |-> "Panic", why |-> why]

\* No return value in flight.
Pending == [tag |-> "Pending"]

VARIABLES
    expr,            \* the tree the caller hands to eval
    overflowChecks,  \* the build: TRUE when integer overflow panics (debug
                     \* profile), FALSE when it wraps (release profile)
    stack,           \* the activations of eval, outermost first
    ret,             \* the Option<Val> being returned to the top activation
    panic,           \* "none", or the message of the panic that ended the run
    calls,           \* probe: the nodes eval was called on, in call order
    returned,        \* probe: <<node, Option<Val>>> for every eval that returned
    rules            \* probe: the operator rule invocations, in order

vars == <<expr, overflowChecks, stack, ret, panic, calls, returned, rules>>

---------------------------------------------------------------------------
(* u64 arithmetic.  `+`, `-` and `*` panic on overflow when the build      *)
(* checks overflow and wrap modulo 2^IntBits when it does not; `/` panics  *)
(* on a zero divisor in every build.                                       *)

\* Mutant of U64_Result: saturating arithmetic.
U64_Result_saturating(exact, why) ==
    IF exact < 0 THEN Some(Val_Int(0))
    ELSE IF exact > MaxU THEN Some(Val_Int(MaxU))
    ELSE Some(Val_Int(exact))

U64_Result(exact, why) ==
    IF exact >= 0 /\ exact <= MaxU THEN Some(Val_Int(exact))
    ELSE IF overflowChecks THEN Panic(why)
    ELSE Some(Val_Int(exact % Modulus))

\* Mutant of U64_Div: a checked division, None on a zero divisor.
U64_Div_checked(a, b) ==
    IF b = 0 THEN None ELSE Some(Val_Int(a \div b))

U64_Div(a, b) ==
    IF b = 0 THEN Panic("attempt to divide by zero")
    ELSE Some(Val_Int(a \div b))

---------------------------------------------------------------------------
(* The operator rules.                                                     *)

\* Mutant of type_checked_var: only numbers pass the check.
type_checked_var_strict(var) ==
    IF var.k \in {"Int", "Rat"} THEN Some(var) ELSE None

type_checked_var(var) == Some(var)

\* Mutant of type_checked_add: a Boolean first operand counts as 0 or 1.
type_checked_add_BooAsInt(val1, val2) ==
    CASE val1.k = "Int" /\ val2.k = "Int" ->
            U64_Result(val1.n + val2.n, "attempt to add with overflow")
      [] val1.k = "Int" /\ val2.k = "Rat" ->
            Some(Val_Rat(F_Add(F_FromU64(val1.n), val2.f)))
      [] val1.k = "Rat" /\ val2.k = "Int" ->
            Some(Val_Rat(F_Add(val1.f, F_FromU64(val2.n))))
      [] val1.k = "Rat" /\ val2.k = "Rat" ->
            Some(Val_Rat(F_Add(val1.f, val2.f)))
      [] val1.k = "Boo" /\ val2.k = "Int" ->
            U64_Result((IF val1.b THEN 1 ELSE 0) + val2.n,
                       "attempt to add with overflow")
      [] OTHER -> None

type_checked_add(val1, val2) ==
    CASE val1.k = "Int" /\ val2.k = "Int" ->
            U64_Result(val1.n + val2.n, "attempt to add with overflow")
      [] val1.k = "Int" /\ val2.k = "Rat" ->
            Some(Val_Rat(F_Add(F_FromU64(val1.n), val2.f)))
      [] val1.k = "Rat" /\ val2.k = "Int" ->
            Some(Val_Rat(F_Add(val1.f, F_FromU64(val2.n))))
      [] val1.k = "Rat" /\ val2.k = "Rat" ->
            Some(Val_Rat(F_Add(val1.f, val2.f)))
      [] OTHER -> None

\* Mutant of type_checked_sub: the (Integer, Rational) arm subtracts the
\* wrong way round.
type_checked_sub_swapped(val1, val2) ==
    CASE val1.k = "Int" /\ val2.k = "Int" ->
            U64_Result(val1.n - val2.n, "attempt to subtract with overflow")
      [] val1.k = "Int" /\ val2.k = "Rat" ->
            Some(Val_Rat(F_Sub(val2.f, F_FromU64(val1.n))))
      [] val1.k = "Rat" /\ val2.k = "Int" ->
            Some(Val_Rat(F_Sub(val1.f, F_FromU64(val2.n))))
      [] val1.k = "Rat" /\ val2.k = "Rat" ->
            Some(Val_Rat(F_Sub(val1.f, val2.f)))
      [] OTHER -> None

type_checked_sub(val1, val2) ==
    CASE val1.k = "Int" /\ val2.k = "Int" ->
            U64_Result(val1.n - val2.n, "attempt to subtract with overflow")
      [] val1.k = "Int" /\ val2.k = "Rat" ->
            Some(Val_Rat(F_Sub(F_FromU64(val1.n), val2.f)))
      [] val1.k = "Rat" /\ val2.k = "Int" ->
            Some(Val_Rat(F_Sub(val1.f, F_FromU64(val2.n))))
      [] val1.k = "Rat" /\ val2.k = "Rat" ->
            Some(Val_Rat(F_Sub(val1.f, val2.f)))
      [] OTHER -> None

\* Mutant of type_checked_mul: the (Integer, Integer) arm widens.
type_checked_mul_widens(val1, val2) ==
    CASE val1.k = "Int" /\ val2.k = "Int" ->
            Some(Val_Rat(F_Mul(F_FromU64(val1.n), F_FromU64(val2.n))))
      [] val1.k = "Int" /\ val2.k = "Rat" ->
            Some(Val_Rat(F_Mul(F_FromU64(val1.n), val2.f)))
      [] val1.k = "Rat" /\ val2.k = "Int" ->
            Some(Val_Rat(F_Mul(val1.f, F_FromU64(val2.n))))
      [] val1.k = "Rat" /\ val2.k = "Rat" ->
            Some(Val_Rat(F_Mul(val1.f, val2.f)))
      [] OTHER -> None

type_checked_mul(val1, val2) ==
    CASE val1.k = "Int" /\ val2.k = "Int" ->
            U64_Result(val1.n * val2.n, "attempt to multiply with overflow")
      [] val1.k = "Int" /\ val2.k = "Rat" ->
            Some(Val_Rat(F_Mul(F_FromU64(val1.n), val2.f)))
      [] val1.k = "Rat" /\ val2.k = "Int" ->
            Some(Val_Rat(F_Mul(val1.f, F_FromU64(val2.n))))
      [] val1.k = "Rat" /\ val2.k = "Rat" ->
            Some(Val_Rat(F_Mul(val1.f, val2.f)))
      [] OTHER -> None

type_checked_div(val1, val2) ==
    CASE val1.k = "Int" /\ val2.k = "Int" ->
            U64_Div(val1.n, val2.n)
      [] val1.k = "Int" /\ val2.k = "Rat" ->
            Some(Val_Rat(F_Div(F_FromU64(val1.n), val2.f)))
      [] val1.k = "Rat" /\ val2.k = "Int" ->
            Some(Val_Rat(F_Div(val1.f, F_FromU64(val2.n))))
      [] val1.k = "Rat" /\ val2.k = "Rat" ->
            Some(Val_Rat(F_Div(val1.f, val2.f)))
      [] OTHER -> None

\* The rule eval's match arm for `op` calls.
Rule(op, val1, val2) ==
    CASE op = "Add" -> type_checked_add(val1, val2)
      [] op = "Sub" -> type_checked_sub(val1, val2)
      [] op = "Mul" -> type_checked_mul(val1, val2)
      [] op = "Div" -> type_checked_div(val1, val2)

---------------------------------------------------------------------------
(* The trees handed to eval.  A node is named by its path from the root:   *)
(* <<>> is the root, p \o <<1>> the first child of p (exp1), p \o <<2>>    *)
(* the second (exp2).                                                      *)

MaxFinite == F_Lit(1, (2 ^ MantBits - 1) * 2 ^ (ExpMax - MantBits + 1), 1)

NonNumeric == {Val_Boo(TRUE), Val_Boo(FALSE), Val_Nil, Val_Txt(""), Val_Txt("a")}

Integers1 == {Val_Int(n) : n \in {0, 1, 2, 3, 10, 2 ^ MantBits + 1, MaxU - 1, MaxU}}

Rationals1 ==
    {Val_Rat(f) : f \in {F_Lit(1, 0, 1), F_Lit(1, 1, 2), F_Lit(1, 3, 1),
                         F_Lit(1, 20, 1), F_Lit(-1, 3, 2), MaxFinite, F_Inf(1)}}

\* The literals of a tree with n operator nodes: every sampled value in the
\* small trees, fewer as the trees grow.
LeavesFor(n) ==
    IF n <= 1 THEN NonNumeric \cup Integers1 \cup Rationals1
    ELSE IF n = 2 THEN {Val_Boo(TRUE), Val_Int(0), Val_Int(1), Val_Int(MaxU),
                        Val_Rat(F_Lit(1, 1, 2))}
    ELSE IF n = 3 THEN {Val_Txt("a"), Val_Int(0), Val_Int(1)}
    ELSE {Val_Nil, Val_Int(0)}

\* The shapes of the trees with exactly n operator nodes, nested at most dep
\* deep: <<>> is a literal, <<s1, s2>> an operator node over the shapes s1, s2.
RECURSIVE ShapesOf(_, _)
ShapesOf(n, dep) ==
    IF n = 0 THEN {<<>>}
    ELSE IF dep = 0 THEN {}
    ELSE UNION {
           {<<s1, s2>> : s1 \in ShapesOf(i, dep - 1),
                         s2 \in ShapesOf(n - 1 - i, dep - 1)}
           : i \in 0 .. (n - 1)}

RECURSIVE OpsIn(_)
OpsIn(sh) == IF sh = <<>> THEN 0 ELSE 1 + OpsIn(sh[1]) + OpsIn(sh[2])

\* The tree of shape sh whose operators are os[oi], os[oi+1], ... and whose
\* literals are ls[li], ls[li+1], ..., both in preorder.
RECURSIVE Build(_, _, _, _, _)
Build(sh, os, ls, oi, li) ==
    IF sh = <<>> THEN Exp_Var(ls[li])
    ELSE Exp_Bin(os[oi],
                 Build(sh[1], os, ls, oi + 1, li),
                 Build(sh[2], os, ls, oi + 1 + OpsIn(sh[1]), li + 1 + OpsIn(sh[1])))

RECURSIVE SubExp(_, _)
SubExp(e, p) ==
    IF p = <<>> THEN e
    ELSE SubExp(IF Head(p) = 1 THEN e.exp1 ELSE e.exp2, Tail(p))

\* p names a node of e
RECURSIVE IsNode(_, _)
IsNode(e, p) ==
    \/ p = <<>>
    \/ /\ e.op \in BinOps
       /\ Head(p) \in {1, 2}
       /\ IsNode(IF Head(p) = 1 THEN e.exp1 ELSE e.exp2, Tail(p))

RECURSIVE Nodes(_)
Nodes(e) ==
    IF e.op = "Var" THEN {<<>>}
    ELSE {<<>>} \cup {<<1>> \o p : p \in Nodes(e.exp1)}
                \cup {<<2>> \o p : p \in Nodes(e.exp2)}

RECURSIVE Depth(_)
Depth(e) ==
    IF e.op = "Var" THEN 1
    ELSE LET d1 == Depth(e.exp1)
             d2 == Depth(e.exp2)
         IN  1 + (IF d1 >= d2 THEN d1 ELSE d2)

---------------------------------------------------------------------------
(* eval, one activation per stack entry.  An activation is at "entry"      *)
(* (called, `match expr` not yet taken), at "exp1" (waiting for            *)
(* eval(exp1)) or at "exp2" (val1 in hand, waiting for eval(exp2)).      *)

Frame(node, e) == [node |-> node, expr |-> e, at |-> "entry", val1 |-> Val_Nil]

Top == stack[Len(stack)]

Pop == SubSeq(stack, 1, Len(stack) - 1)

ReplaceTop(f) == [stack EXCEPT ![Len(stack)] = f]

Init ==
    /\ \E n \in 0 .. MaxOps :
         \E sh \in ShapesOf(n, MaxDepth) :
           \E os \in [1 .. n -> BinOps] :
             \E ls \in [1 .. (n + 1) -> LeavesFor(n)] :
               expr = Build(sh, os, ls, 1, 1)
    /\ overflowChecks \in BOOLEAN
    /\ stack = <<Frame(<<>>, expr)>>
    /\ ret = Pending
    /\ panic = "none"
    /\ calls = <<<<>>>>
    /\ returned = {}
    /\ rules = <<>>

\* Exp::Var(var) => type_checked_var(var)
CanEvalVar == stack # <<>> /\ Top.at = "entry" /\ Top.expr.op = "Var"

EvalVar ==
    /\ CanEvalVar
    /\ ret' = type_checked_var(Top.expr.val)
    /\ returned' = returned \cup {<<Top.node, type_checked_var(Top.expr.val)>>}
    /\ stack' = Pop
    /\ UNCHANGED <<expr, overflowChecks, panic, calls, rules>>

\* Exp::Add(exp1, exp2) (Sub, Mul, Div alike): the first argument, eval(exp1)
CanCallExp1 == stack # <<>> /\ Top.at = "entry" /\ Top.expr.op \in BinOps

CallExp1 ==
    /\ CanCallExp1
    /\ stack' = Append(ReplaceTop([Top EXCEPT !.at = "exp1"]),
                       Frame(Top.node \o <<1>>, Top.expr.exp1))
    /\ calls' = Append(calls, Top.node \o <<1>>)
    /\ UNCHANGED <<expr, overflowChecks, ret, panic, returned, rules>>

\* eval(exp1)? on None: return None
CanExp1None == stack # <<>> /\ Top.at = "exp1" /\ ret = None

\* Mutant of Exp1None: both arguments are evaluated before either `?`.
Exp1None_eager ==
    /\ CanExp1None
    /\ stack' = Append(ReplaceTop([Top EXCEPT !.at = "exp2"]),
                       Frame(Top.node \o <<2>>, Top.expr.exp2))
    /\ ret' = Pending
    /\ calls' = Append(calls, Top.node \o <<2>>)
    /\ UNCHANGED <<expr, overflowChecks, panic, returned, rules>>

Exp1None ==
    /\ CanExp1None
    /\ stack' = Pop
    /\ returned' = returned \cup {<<Top.node, None>>}
    /\ UNCHANGED <<expr, overflowChecks, ret, panic, calls, rules>>

\* eval(exp1)? on Some(val1): the second argument, eval(exp2)
CanCallExp2 == stack # <<>> /\ Top.at = "exp1" /\ ret.tag = "Some"

\* Mutant of CallExp2: the second argument evaluates exp1 again.
CallExp2_again ==
    /\ CanCallExp2
    /\ stack' = Append(ReplaceTop([Top EXCEPT !.at = "exp2", !.val1 = ret.val]),
                       Frame(Top.node \o <<1>>, Top.expr.exp1))
    /\ ret' = Pending
    /\ calls' = Append(calls, Top.node \o <<1>>)
    /\ UNCHANGED <<expr, overflowChecks, panic, returned, rules>>

\* Mutant of CallExp2: the kind of val1 is checked before exp2 is evaluated.
CallExp2_typecheck_first ==
    /\ CanCallExp2
    /\ IF ret.val.k \in {"Int", "Rat"}
       THEN /\ stack' = Append(ReplaceTop([Top EXCEPT !.at = "exp2",
                                                      !.val1 = ret.val]),
                               Frame(Top.node \o <<2>>, Top.expr.exp2))
            /\ ret' = Pending
            /\ calls' = Append(calls, Top.node \o <<2>>)
            /\ UNCHANGED returned
       ELSE /\ stack' = Pop
            /\ ret' = None
            /\ returned' = returned \cup {<<Top.node, None>>}
            /\ UNCHANGED calls
    /\ UNCHANGED <<expr, overflowChecks, panic, rules>>

CallExp2 ==
    /\ CanCallExp2
    /\ stack' = Append(ReplaceTop([Top EXCEPT !.at = "exp2", !.val1 = ret.val]),
                       Frame(Top.node \o <<2>>, Top.expr.exp2))
    /\ ret' = Pending
    /\ calls' = Append(calls, Top.node \o <<2>>)
    /\ UNCHANGED <<expr, overflowChecks, panic, returned, rules>>

\* eval(exp2)? on None: return None
CanExp2None == stack # <<>> /\ Top.at = "exp2" /\ ret = None

\* Mutant of Exp2None: a failed second operand is dropped and val1 returned.
Exp2None_swallow ==
    /\ CanExp2None
    /\ stack' = Pop
    /\ ret' = Some(Top.val1)
    /\ returned' = returned \cup {<<Top.node, Some(Top.val1)>>}
    /\ UNCHANGED <<expr, overflowChecks, panic, calls, rules>>

Exp2None ==
    /\ CanExp2None
    /\ stack' = Pop
    /\ returned' = returned \cup {<<Top.node, None>>}
    /\ UNCHANGED <<expr, overflowChecks, ret, panic, calls, rules>>

CanCallRule == stack # <<>> /\ Top.at = "exp2" /\ ret.tag = "Some"

RuleCall(out) ==
    [node |-> Top.node, op |-> Top.expr.op, val1 |-> Top.val1, val2 |-> ret.val,
     out |-> out]

\* eval(exp2)? on Some(val2): type_checked_<op>(val1, val2) returns
ApplyRule ==
    /\ CanCallRule
    /\ LET out == Rule(Top.expr.op, Top.val1, ret.val) IN
         /\ out.tag # "Panic"
         /\ ret' = out
         /\ returned' = returned \cup {<<Top.node, out>>}
         /\ rules' = Append(rules, RuleCall(out))
    /\ stack' = Pop
    /\ UNCHANGED <<expr, overflowChecks, panic, calls>>

\* eval(exp2)? on Some(val2): type_checked_<op>(val1, val2) panics; nothing
\* on the stack catches it
RulePanic ==
    /\ CanCallRule
    /\ LET out == Rule(Top.expr.op, Top.val1, ret.val) IN
         /\ out.tag = "Panic"
         /\ panic' = out.why
         /\ rules' = Append(rules, RuleCall(out))
    /\ ret' = Pending
    /\ stack' = <<>>
    /\ UNCHANGED <<expr, overflowChecks, calls, returned>>

Next ==
    \/ EvalVar
    \/ CallExp1
    \/ Exp1None
    \/ CallExp2
    \/ Exp2None
    \/ ApplyRule
    \/ RulePanic

Spec == Init /\ [][Next]_vars

\* The call of eval by the caller is over: it returned or it panicked.
Done == stack = <<>>

Returned == stack = <<>> /\ panic = "none"

---------------------------------------------------------------------------
(* Vocabulary of the properties.                                           *)

\* tests::ival, tests::fval
ival(x) == Exp_Var(Val_Int(x))

fval(x) == Exp_Var(Val_Rat(x))

IsPrefix(p, q) == Len(p) <= Len(q) /\ SubSeq(q, 1, Len(p)) = p

Parent(p) == SubSeq(p, 1, Len(p) - 1)

IsNumeric(v) == v.k \in {"Int", "Rat"}

RECURSIVE Leaves(_)
Leaves(e) ==
    IF e.op = "Var" THEN {e.val} ELSE Leaves(e.exp1) \cup Leaves(e.exp2)

RuleIdx == 1 .. Len(rules)

CallIdx == 1 .. Len(calls)

\* The operand of a rule as the f64 the rule combines: an Integer widened.
Widened(v) == IF v.k = "Int" THEN F_FromU64(v.n) ELSE v.f

FloatOp(op, x, y) ==
    CASE op = "Add" -> F_Add(x, y)
      [] op = "Sub" -> F_Sub(x, y)
      [] op = "Mul" -> F_Mul(x, y)
      [] op = "Div" -> F_Div(x, y)

\* The mathematical (unbounded) integer result of op on a and b; the
\* quotient only for b # 0.
ExactInt(op, a, b) ==
    CASE op = "Add" -> a + b
      [] op = "Sub" -> a - b
      [] op = "Mul" -> a * b
      [] op = "Div" -> a \div b

DivByZero == "attempt to divide by zero"

---------------------------------------------------------------------------
\* C1: whenever one of the four operator rules is applied to a pair of
\* operands of which at least one is Boolean, Nil or Text, whatever the
\* other, it returns None: never a value, and it does not panic.
C1_MismatchIsNone ==
    \A i \in RuleIdx :
        (~IsNumeric(rules[i].val1) \/ ~IsNumeric(rules[i].val2))
            => rules[i].out = None

\* C1 witness: the spec's scenario Add(Boolean(true), Integer(1)) has been
\* evaluated and its rule returned None.
C1_Witness ==
    /\ Done
    /\ expr = Exp_Bin("Add", Exp_Var(Val_Boo(TRUE)), ival(1))
    /\ Len(rules) = 1
    /\ rules[1].val1 = Val_Boo(TRUE)
    /\ rules[1].out = None
    /\ ret = None

---------------------------------------------------------------------------
\* C2 as claimed: every rule applied to two Integers returns a present
\* Integer equal to the exact integer result of the operator on the two
\* operands (for a zero divisor, at least a present Integer), also when the
\* first operand of a subtraction is the smaller one and when an exact sum or
\* product exceeds the largest word.
C2_ExactAlways ==
    \A i \in RuleIdx :
        LET c == rules[i] IN
        (c.val1.k = "Int" /\ c.val2.k = "Int") =>
            /\ c.out.tag = "Some"
            /\ c.out.val.k = "Int"
            /\ (c.op = "Div" /\ c.val2.n = 0)
               \/ c.out.val.n = ExactInt(c.op, c.val1.n, c.val2.n)

\* C2 amended: a rule applied to two Integers never returns None or a
\* Rational.  When the exact result fits the word (0 .. MaxU; for divide,
\* when the divisor is not zero) it returns the Integer equal to it.  When an
\* exact sum, difference or product does not fit, it panics in a build that
\* checks overflow and returns the exact result modulo 2^IntBits in a build
\* that does not; an Integer division by zero panics in every build.
C2_ExactWhenRepresentable ==
    \A i \in RuleIdx :
        LET c == rules[i] IN
        (c.val1.k = "Int" /\ c.val2.k = "Int") =>
            IF c.op = "Div" /\ c.val2.n = 0
            THEN c.out = Panic(DivByZero)
            ELSE LET x == ExactInt(c.op, c.val1.n, c.val2.n) IN
                 IF x >= 0 /\ x <= MaxU THEN c.out = Some(Val_Int(x))
                 ELSE IF overflowChecks THEN c.out.tag = "Panic"
                 ELSE c.out = Some(Val_Int(x % Modulus))

\* C2 witness: in a build without overflow checks, Subtract(Integer(1),
\* Integer(2)) has returned the wrapped Integer MaxU.
C2_Witness ==
    /\ Done
    /\ ~overflowChecks
    /\ expr = Exp_Bin("Sub", ival(1), ival(2))
    /\ ret = Some(Val_Int(MaxU))

---------------------------------------------------------------------------
\* C3: every rule applied to (Integer, Rational), (Rational, Integer) or
\* (Rational, Rational) returns a present Rational equal to the operator
\* applied to the first and the second operand, in that order, an Integer
\* operand widened to floating point first; and eval of Add, Subtract,
\* Multiply, Divide of Integer(10) and Rational(20.0) returns Rational 30.0,
\* -10.0, 200.0 and 0.5.
C3_RationalRule ==
    /\ \A i \in RuleIdx :
        LET c == rules[i] IN
        (IsNumeric(c.val1) /\ IsNumeric(c.val2)
            /\ (c.val1.k = "Rat" \/ c.val2.k = "Rat")) =>
            c.out = Some(Val_Rat(FloatOp(c.op, Widened(c.val1), Widened(c.val2))))
    /\ \A o \in BinOps :
        (Done /\ expr = Exp_Bin(o, ival(10), fval(F_Lit(1, 20, 1)))) =>
            ret = Some(Val_Rat(CASE o = "Add" -> F_Lit(1, 30, 1)
                                 [] o = "Sub" -> F_Lit(-1, 10, 1)
                                 [] o = "Mul" -> F_Lit(1, 200, 1)
                                 [] o = "Div" -> F_Lit(1, 1, 2)))

\* C3 witness: Subtract(Integer(10), Rational(20.0)) has returned
\* Rational(-10.0).
C3_Witness ==
    /\ Done
    /\ expr = Exp_Bin("Sub", ival(10), fval(F_Lit(1, 20, 1)))
    /\ ret = Some(Val_Rat(F_Lit(-1, 10, 1)))

---------------------------------------------------------------------------
\* C4: once the first child of an operator node has returned None, eval is
\* never called on the second child nor on any node below it, the node
\* itself returns nothing but None, and the run does not panic, whatever the
\* second child holds.
C4_ShortCircuit ==
    \A r \in returned :
        (r[2] = None /\ r[1] # <<>> /\ r[1][Len(r[1])] = 1) =>
            /\ \A j \in CallIdx : ~IsPrefix(Parent(r[1]) \o <<2>>, calls[j])
            /\ \A r2 \in returned : r2[1] = Parent(r[1]) => r2[2] = None
            /\ panic = "none"

\* C4 witness: the first child of the root failed, the second child is
\* Divide(Integer(1), Integer(0)), which panics when evaluated, and the call
\* has returned None.
C4_Witness ==
    /\ Done
    /\ expr.op \in BinOps
    /\ <<<<1>>, None>> \in returned
    /\ expr.exp2 = Exp_Bin("Div", ival(1), ival(0))
    /\ ret = None
    /\ panic = "none"

---------------------------------------------------------------------------
\* C5: once a child of an operator node has returned None (the first, or
\* the second after the first returned a value), the operator rule of the
\* node is not invoked and the node returns nothing but None; and a call of
\* eval that returns, after any rule in the tree returned None, returns None.
C5_FailurePropagates ==
    /\ \A r \in returned :
        (r[2] = None /\ r[1] # <<>>) =>
            /\ \A i \in RuleIdx : rules[i].node # Parent(r[1])
            /\ \A r2 \in returned : r2[1] = Parent(r[1]) => r2[2] = None
    /\ (Returned /\ \E i \in RuleIdx : rules[i].out = None) => ret = None

\* C5 witness: the first child of the root, an operator node, returned a
\* value, the rule of the second child returned None on a type mismatch, and
\* the call has returned None with no rule invoked at the root.
C5_Witness ==
    /\ Returned
    /\ expr.op \in BinOps
    /\ expr.exp1.op \in BinOps
    /\ \E r \in returned : r[1] = <<1>> /\ r[2].tag = "Some"
    /\ \E i \in RuleIdx : rules[i].out = None /\ rules[i].node = <<2>>
    /\ \A i \in RuleIdx : rules[i].node # <<>>
    /\ ret = None

---------------------------------------------------------------------------
\* C6: the Divide rule applied to two Integers with a zero divisor panics
\* with an integer division by zero: the run ends there, no value and no
\* None is returned by the node or by any operator node enclosing it, and
\* nothing reaches the caller; so for Divide(Integer(1), Integer(0)).
C6_DivByZeroPanics ==
    /\ \A i \in RuleIdx :
        LET c == rules[i] IN
        (c.op = "Div" /\ c.val1.k = "Int" /\ c.val2.k = "Int" /\ c.val2.n = 0) =>
            /\ c.out = Panic(DivByZero)
            /\ panic = DivByZero
            /\ stack = <<>>
            /\ ret = Pending
            /\ \A r \in returned : ~IsPrefix(r[1], c.node)
    /\ (Done /\ expr = Exp_Bin("Div", ival(1), ival(0))) => panic = DivByZero

\* C6 witness: Divide(Integer(1), Integer(0)) was the second child of an Add
\* node whose first child returned a value; the run ended in the panic and
\* the Add node returned nothing.
C6_Witness ==
    /\ Done
    /\ expr.op = "Add"
    /\ expr.exp2 = Exp_Bin("Div", ival(1), ival(0))
    /\ panic = DivByZero
    /\ ret = Pending
    /\ \A r \in returned : r[1] # <<>>

---------------------------------------------------------------------------
\* C7: eval of a Literal node returns Some of the contained value,
\* unchanged, whatever the kind of the value, Boolean, Nil and Text
\* included; a tree that is a single literal ends with that value and
\* without a panic.
C7_LiteralSucceeds ==
    /\ \A r \in returned :
        SubExp(expr, r[1]).op = "Var" => r[2] = Some(SubExp(expr, r[1]).val)
    /\ (Done /\ expr.op = "Var") => (panic = "none" /\ ret = Some(expr.val))

\* C7 witness: eval of Literal(Nil) has returned Some(Nil).
C7_Witness ==
    /\ Done
    /\ expr = Exp_Var(Val_Nil)
    /\ <<<<>>, Some(Val_Nil)>> \in returned
    /\ ret = Some(Val_Nil)

---------------------------------------------------------------------------
\* The shape of the recursion: the activations on the stack are the nodes of
\* one path from the root, each the child of the one below it and holding
\* that child's subtree; so the stack is never deeper than the tree.  eval is
\* called on nodes of the tree only, and on none of them twice.
C8_Structure ==
    /\ Len(stack) <= Depth(expr)
    /\ \A k \in 1 .. Len(stack) :
        /\ stack[k].expr = SubExp(expr, stack[k].node)
        /\ Len(stack[k].node) = k - 1
        /\ k > 1 => /\ Parent(stack[k].node) = stack[k - 1].node
                    /\ stack[k].expr \in {stack[k - 1].expr.exp1,
                                          stack[k - 1].expr.exp2}
    /\ \A j \in CallIdx : IsNode(expr, calls[j])
    /\ \A i, j \in CallIdx : i # j => calls[i] # calls[j]

\* The steps eval can still take on the tree e: one for a literal, three
\* for an operator node (call on exp1, call on exp2, rule) and those of its
\* children.
RECURSIVE Work(_)
Work(e) == IF e.op = "Var" THEN 1 ELSE 3 + Work(e.exp1) + Work(e.exp2)

\* The steps activation f can still take, those of the activations it has
\* already called left out.
WorkLeft(f) ==
    CASE f.at = "entry" -> Work(f.expr)
      [] f.at = "exp1" -> 2 + Work(f.expr.exp2)
      [] f.at = "exp2" -> 1

RECURSIVE SumWork(_)
SumWork(st) == IF st = <<>> THEN 0 ELSE WorkLeft(Head(st)) + SumWork(Tail(st))

\* The variant of the recursion: a natural number, zero when eval is over.
Measure == SumWork(stack)

\* Unless the call is over, the guard of a step holds (a called rule
\* returns or panics).
CanStep ==
    \/ CanEvalVar
    \/ CanCallExp1
    \/ CanExp1None
    \/ CanCallExp2
    \/ CanExp2None
    \/ CanCallRule

C8_Progress == C8_Structure /\ Measure <= Work(expr) /\ (Done \/ CanStep)

\* C8: every call of eval on a finite tree ends, with a value, None or a
\* panic: as long as the call is not over a step can be taken, and every
\* step strictly decreases a natural number that the structural size of the
\* tree bounds (initially, and after every step).  All along, every
\* recursive call is on a child of the node being evaluated, no node is
\* evaluated twice and the recursion is never deeper than the tree.
C8_Terminates ==
    /\ C8_Progress
    /\ [][C8_Progress' /\ Measure' < Measure]_vars

\* C8 witness: a tree of depth 3 with seven nodes has been evaluated to a
\* value, eval having been called on every node.
C8_Witness ==
    /\ Returned
    /\ Depth(expr) = 3
    /\ Cardinality(Nodes(expr)) = 7
    /\ Len(calls) = 7
    /\ ret.tag = "Some"

---------------------------------------------------------------------------
\* C9: an operator rule is invoked only after both children of its node
\* returned values, the operands of the rule; eval is called on the second
\* child only after the first child returned a value, and no node of the
\* first child is evaluated after that.  So a node whose first child is a
\* non-numeric literal and whose second child is a Divide of an Integer by
\* Integer zero ends in the panic, not in None; and a call whose root's
\* first child returned None returns None without a panic.
C9_MismatchAfterBoth ==
    /\ \A i \in RuleIdx :
        /\ <<rules[i].node \o <<1>>, Some(rules[i].val1)>> \in returned
        /\ <<rules[i].node \o <<2>>, Some(rules[i].val2)>> \in returned
    /\ \A j \in CallIdx :
        (calls[j] # <<>> /\ calls[j][Len(calls[j])] = 2) =>
            /\ \E r \in returned :
                r[1] = Parent(calls[j]) \o <<1>> /\ r[2].tag = "Some"
            /\ \A i \in CallIdx :
                IsPrefix(Parent(calls[j]) \o <<1>>, calls[i]) => i < j
    /\ (/\ Done
        /\ expr.op \in BinOps
        /\ expr.exp1.op = "Var"
        /\ ~IsNumeric(expr.exp1.val)
        /\ expr.exp2.op = "Div"
        /\ expr.exp2.exp1.op = "Var"
        /\ expr.exp2.exp2.op = "Var"
        /\ expr.exp2.exp1.val.k = "Int"
        /\ expr.exp2.exp2.val = Val_Int(0)) => panic = DivByZero
    /\ (Done /\ <<<<1>>, None>> \in returned) => (panic = "none" /\ ret = None)

\* C9 witness: Add(Literal(Boolean(true)), Divide(Integer(1), Integer(0)))
\* has ended in the division panic.
C9_Witness ==
    /\ Done
    /\ expr = Exp_Bin("Add", Exp_Var(Val_Boo(TRUE)),
                      Exp_Bin("Div", ival(1), ival(0)))
    /\ panic = DivByZero

---------------------------------------------------------------------------
\* C10: a value returned by an operator node is an Integer or a Rational; it
\* is an Integer exactly when every literal below the node is an Integer,
\* and a Rational when all of them are Integer or Rational and one at least
\* is Rational; an operator node with a Boolean, Nil or Text literal
\* anywhere below it returns no value.
C10_ResultKind ==
    \A r \in returned :
        LET e == SubExp(expr, r[1])
            L == Leaves(e)
        IN  e.op \in BinOps =>
            /\ (\E v \in L : ~IsNumeric(v)) => r[2].tag # "Some"
            /\ r[2].tag = "Some" =>
                /\ r[2].val.k \in {"Int", "Rat"}
                /\ r[2].val.k = "Int" <=> (\A v \in L : v.k = "Int")
                /\ ((\A v \in L : IsNumeric(v)) /\ (\E v \in L : v.k = "Rat"))
                       => r[2].val.k = "Rat"

\* C10 witness: a tree with two operator nodes over Integer and Rational
\* literals has returned a Rational.
C10_Witness ==
    /\ Returned
    /\ expr.op \in BinOps
    /\ expr.exp1.op \in BinOps
    /\ \E v \in Leaves(expr) : v.k = "Int"
    /\ \E v \in Leaves(expr) : v.k = "Rat"
    /\ ret.tag = "Some"
    /\ ret.val.k = "Rat"

=============================================================================
